---- MODULE Spec2Model ----
(***************************************************************************)
(* A model of the FOMC collector (src/fomc/collector.py) and of the        *)
(* catalog API (src/fomc/server.py).                                       *)
(*                                                                         *)
(* Text is modelled character by character: a Python str is a sequence of  *)
(* one-character strings, so that lower(), replace(), re.sub(), re.match() *)
(* and strptime() are computed on the characters as the code computes      *)
(* them.  A character outside ASCII is written as a named token ("ndash"). *)
(* An Optional[...] is a record: None, or Some(v).                         *)
(***************************************************************************)
EXTENDS Integers, Sequences, FiniteSets, TLC

VARIABLES
    fn,      \* the pure function under evaluation (the function harnesses)
    arg,     \* its argument
    ret,     \* what it returned (None before the call)
    fs,      \* the base directory: the CSV log, missing_projections.txt, the PDFs
    pc,      \* where main() / download_documents() stands
    run,     \* the locals of the running collector
    clock,   \* datetime.utcnow(), in ticks
    runs,    \* download runs started so far
    resp     \* the response of the request the API has just handled (None after
             \* a step of the collector)

vars == <<fn, arg, ret, fs, pc, run, clock, runs, resp>>

----------------------------------------------------------------------------
(* Optional values *)

None == [has |-> FALSE]
Some(v) == [has |-> TRUE, val |-> v]

----------------------------------------------------------------------------
(* Characters and text *)

Upper == <<"A","B","C","D","E","F","G","H","I","J","K","L","M",
           "N","O","P","Q","R","S","T","U","V","W","X","Y","Z">>
Lower == <<"a","b","c","d","e","f","g","h","i","j","k","l","m",
           "n","o","p","q","r","s","t","u","v","w","x","y","z">>
\* "0123456789"
Digits == <<"0","1","2","3","4","5","6","7","8","9">>

Range(s) == {s[i] : i \in DOMAIN s}

\* the character classes [A-Za-z], [0-9] and \s of the regular expressions
Letters == Range(Upper) \cup Range(Lower)
DigitSet == Range(Digits)
Spaces == {" ", "\t", "\n", "nbsp"}

IsDigit(c) == c \in DigitSet
IsLetter(c) == c \in Letters
IsSpace(c) == c \in Spaces

DigitValue == [c \in DigitSet |-> (CHOOSE i \in 1..10 : Digits[i] = c) - 1]
DigitVal(c) == DigitValue[c]

\* int(text) for a text of decimal digits
RECURSIVE ParseInt(_)
ParseInt(s) ==
    IF s = <<>> THEN 0
    ELSE 10 * ParseInt(SubSeq(s, 1, Len(s) - 1)) + DigitVal(s[Len(s)])

\* the decimal digits of n, zero-padded to at least w characters (format :0wd)
RECURSIVE ZeroPad(_, _)
ZeroPad(n, w) ==
    IF w <= 1 /\ n < 10 THEN <<Digits[n + 1]>>
    ELSE ZeroPad(n \div 10, w - 1) \o <<Digits[(n % 10) + 1]>>

\* str.lower(), one character
LowerOf == [c \in Range(Upper) |-> Lower[CHOOSE i \in 1..26 : Upper[i] = c]]
lower_char(c) == IF c \in DOMAIN LowerOf THEN LowerOf[c] ELSE c

\* str.lower()
str_lower(s) == [i \in 1..Len(s) |-> lower_char(s[i])]

\* str.replace(old, new) for a one-character old; new is a text
RECURSIVE str_replace(_, _, _)
str_replace(s, old, new) ==
    IF s = <<>> THEN <<>>
    ELSE (IF s[1] = old THEN new ELSE <<s[1]>>) \o str_replace(Tail(s), old, new)

\* sub in s  (Python's substring test)
str_contains(s, sub) ==
    \E i \in 0..(Len(s) - Len(sub)) : SubSeq(s, i + 1, i + Len(sub)) = sub

\* text.split(sep)[0]: the text before the first sep
str_before(s, sep) ==
    IF \E i \in DOMAIN s : s[i] = sep
    THEN SubSeq(s, 1, (CHOOSE i \in DOMAIN s : s[i] = sep /\ \A j \in 1..(i - 1) : s[j] # sep) - 1)
    ELSE s

\* str.strip()
RECURSIVE lstrip(_)
lstrip(s) == IF s # <<>> /\ IsSpace(s[1]) THEN lstrip(Tail(s)) ELSE s

RECURSIVE rstrip(_)
rstrip(s) ==
    IF s # <<>> /\ IsSpace(s[Len(s)]) THEN rstrip(SubSeq(s, 1, Len(s) - 1)) ELSE s

\* re.sub(r"\s+", " ", text): every maximal run of whitespace becomes one space
RECURSIVE collapse_ws(_)
collapse_ws(s) ==
    IF s = <<>> THEN <<>>
    ELSE IF IsSpace(s[1]) THEN <<" ">> \o collapse_ws(lstrip(s))
    ELSE <<s[1]>> \o collapse_ws(Tail(s))

_normalize_whitespace(text) == rstrip(lstrip(collapse_ws(text)))

\* all texts over an alphabet, up to a length
Texts(alphabet, n) == UNION {[1..k -> alphabet] : k \in 0..n}

----------------------------------------------------------------------------
(* MeetingDocuments *)

Date(y, m, d) == [year |-> y, month |-> m, day |-> d]

\* date.isoformat(): YYYY-MM-DD
isoformat(d) ==
    ZeroPad(d.year, 4) \o <<"-">> \o ZeroPad(d.month, 2) \o <<"-">> \o ZeroPad(d.day, 2)

\* the order of datetime.date
DateLess(a, b) ==
    \/ a.year < b.year
    \/ a.year = b.year /\ a.month < b.month
    \/ a.year = b.year /\ a.month = b.month /\ a.day < b.day

\* "https://www.federalreserve.gov/monetarypolicy/fomccalendars.htm"
CALENDAR_URL ==
    <<
      "h","t","t","p","s",":","/","/","w","w","w",".","f","e","d","e","r","a","l","r","e",
      "s","e","r","v","e",".","g","o","v","/","m","o","n","e","t","a","r","y","p","o","l",
      "i","c","y","/","f","o","m","c","c","a","l","e","n","d","a","r","s",".","h","t","m">>

MeetingDocuments(d, label, statement_url, projection_url) ==
    [meeting_date |-> d, label |-> label, statement_url |-> statement_url,
     projection_url |-> projection_url, source_url |-> CALENDAR_URL]

meeting_year(m) == m.meeting_date.year

\* the characters re.sub(r"[^a-z0-9-]", "", ...) keeps
StubChars == Range(Lower) \cup Range(Digits) \cup {"-"}

fomc == <<"f","o","m","c">>

\* the sanitised label, without the fallback (a stub that may end in "_")
filename_stub_no_fallback(m) ==
    isoformat(m.meeting_date) \o <<"_">>
        \o SelectSeq(str_replace(str_lower(m.label), " ", <<"-">>), LAMBDA c : c \in StubChars)

filename_stub(m) ==
    LET label_part ==
            LET kept == SelectSeq(str_replace(str_lower(m.label), " ", <<"-">>),
                                  LAMBDA c : c \in StubChars)
            IN  IF kept = <<>> THEN fomc ELSE kept
    IN  isoformat(m.meeting_date) \o <<"_">> \o label_part

----------------------------------------------------------------------------
(* The state of the collector and the API when they are not running *)

EmptyDir == [log |-> None, missing |-> None, files |-> <<>>, dirs |-> {}]

Idle ==
    /\ fs = EmptyDir
    /\ pc = "idle"
    /\ run = None
    /\ clock = 0
    /\ runs = 0
    /\ resp = None

IdleUnchanged == UNCHANGED <<fs, pc, run, clock, runs, resp>>

----------------------------------------------------------------------------
(* filename_stub, applied to every label over a small alphabet *)

MaxLabelLen == 3

LabelAlphabet == {"A", "b", "3", " ", "(", "-"}

\* "FOMC Meeting (Jan 30-31)"
LabelJan3031 == <<"F","O","M","C"," ","M","e","e","t","i","n","g"," ",
                  "(","J","a","n"," ","3","0","-","3","1",")">>

StubLabels == Texts(LabelAlphabet, MaxLabelLen) \cup {LabelJan3031}

StubDates == {Date(2024, 1, 30), Date(2019, 12, 9)}

InitStub ==
    /\ fn = "filename_stub"
    /\ arg \in {MeetingDocuments(d, l, None, None) : d \in StubDates, l \in StubLabels}
    /\ ret = None
    /\ Idle

CallFilenameStub ==
    /\ fn = "filename_stub"
    /\ ret = None
    /\ ret' = Some(filename_stub(arg))
    /\ UNCHANGED <<fn, arg>>
    /\ IdleUnchanged

NextStub == CallFilenameStub

SpecStub == InitStub /\ [][NextStub]_vars

\* "2024-01-30_fomc-meeting-jan-31", the stub the claim expects
StubJan31 == <<"2","0","2","4","-","0","1","-","3","0","_",
               "f","o","m","c","-","m","e","e","t","i","n","g","-","j","a","n","-","3","1">>

\* "2024-01-30_fomc-meeting-jan-30-31"
StubJan3031 == <<"2","0","2","4","-","0","1","-","3","0","_",
                 "f","o","m","c","-","m","e","e","t","i","n","g","-","j","a","n","-","3","0","-","3","1">>

StubCalled == fn = "filename_stub" /\ ret.has

\* the part of a stub after "<date>_"
AfterDate(stub) == SubSeq(stub, 12, Len(stub))

StubIsSafe ==
    StubCalled =>
        /\ SubSeq(ret.val, 1, 11) = isoformat(arg.meeting_date) \o <<"_">>
        /\ AfterDate(ret.val) # <<>>
        /\ \A i \in DOMAIN AfterDate(ret.val) : AfterDate(ret.val)[i] \in StubChars

\* C6 as stated: label "FOMC Meeting (Jan 30-31)" on 2024-01-30 yields the stub
\* "2024-01-30_fomc-meeting-jan-31", and for every label the part after the date
\* is a non-empty text of lowercase letters, digits and hyphens.
C6_AsStated ==
    /\ StubIsSafe
    /\ (StubCalled /\ arg.label = LabelJan3031 /\ arg.meeting_date = Date(2024, 1, 30))
           => ret.val = StubJan31

\* C6 amended: that label on that date yields "2024-01-30_fomc-meeting-jan-30-31"
\* (the digits of "30" are kept), and for every label the part after the date is a
\* non-empty text of lowercase letters, digits and hyphens.
C6_Stub ==
    /\ StubIsSafe
    /\ (StubCalled /\ arg.label = LabelJan3031 /\ arg.meeting_date = Date(2024, 1, 30))
           => ret.val = StubJan3031

C6_Witness ==
    StubCalled /\ arg.label = LabelJan3031 /\ arg.meeting_date = Date(2024, 1, 30)

----------------------------------------------------------------------------
(* _extract_links *)

\* urllib.parse.urljoin(base, url) for the shapes of href the pages use: empty,
\* absolute ("scheme:..."), rooted ("/path") and relative ("file")
HasScheme(url) ==
    \E i \in 2..Len(url) : url[i] = ":" /\ \A j \in 1..(i - 1) : IsLetter(url[j])

\* "scheme://host" of an absolute URL: what precedes its third "/"
Origin(base) ==
    LET slashes == {i \in DOMAIN base : base[i] = "/"}
        third == CHOOSE i \in slashes : Cardinality({j \in slashes : j < i}) = 2
    IN  SubSeq(base, 1, third - 1)

\* an absolute URL up to and including its last "/"
Directory(base) ==
    LET last == CHOOSE i \in DOMAIN base : base[i] = "/" /\ \A j \in DOMAIN base : j > i => base[j] # "/"
    IN  SubSeq(base, 1, last)

urljoin(base, url) ==
    IF url = <<>> THEN base
    ELSE IF HasScheme(url) THEN url
    ELSE IF url[1] = "/" THEN Origin(base) \o url
    ELSE Directory(base) \o url

\* Tag.get_text(strip=True): the element's strings, each stripped, the empty ones
\* dropped, joined by ""
RECURSIVE get_text_strip(_)
get_text_strip(strings) ==
    IF strings = <<>> THEN <<>>
    ELSE rstrip(lstrip(Head(strings))) \o get_text_strip(Tail(strings))

\* Tag.get_text(): the element's strings joined by ""
RECURSIVE get_text(_)
get_text(strings) ==
    IF strings = <<>> THEN <<>> ELSE Head(strings) \o get_text(Tail(strings))

\* A child of a cell: a text node, or an <a> element with its strings and its href
TextNode(t) == [tag |-> "text", strings |-> <<t>>, href |-> None]
Anchor(strings, href) == [tag |-> "a", strings |-> strings, href |-> href]

\* cell.find_all("a")
find_all_a(cell) == SelectSeq(cell, LAMBDA n : n.tag = "a")

\* cell.get_text()
cell_text(cell) ==
    LET RECURSIVE join(_)
        join(ns) == IF ns = <<>> THEN <<>> ELSE get_text(Head(ns).strings) \o join(Tail(ns))
    IN  join(cell)

\* "statement"
statement == <<"s","t","a","t","e","m","e","n","t">>
\* "projection"
projection == <<"p","r","o","j","e","c","t","i","o","n">>

\* the loop of _extract_links over the remaining links, first match kept
RECURSIVE extract_links_first_wins(_, _, _)
extract_links_first_wins(links, statement_url, projection_url) ==
    IF links = <<>> THEN <<statement_url, projection_url>>
    ELSE
        LET link == Head(links)
            text == str_lower(get_text_strip(link.strings))
        IN  IF ~link.href.has \/ link.href.val = <<>>
            THEN extract_links_first_wins(Tail(links), statement_url, projection_url)
            ELSE
                LET href == urljoin(CALENDAR_URL, link.href.val)
                IN  extract_links_first_wins(
                        Tail(links),
                        IF str_contains(text, statement) /\ ~statement_url.has
                            THEN Some(href) ELSE statement_url,
                        IF str_contains(text, projection) /\ ~projection_url.has
                            THEN Some(href) ELSE projection_url)

\* the loop of _extract_links over the remaining links
RECURSIVE extract_links_loop(_, _, _)
extract_links_loop(links, statement_url, projection_url) ==
    IF links = <<>> THEN <<statement_url, projection_url>>
    ELSE
        LET link == Head(links)
            text == str_lower(get_text_strip(link.strings))
        IN  IF ~link.href.has \/ link.href.val = <<>>
            THEN extract_links_loop(Tail(links), statement_url, projection_url)
            ELSE
                LET href == urljoin(CALENDAR_URL, link.href.val)
                IN  extract_links_loop(
                        Tail(links),
                        IF str_contains(text, statement) THEN Some(href) ELSE statement_url,
                        IF str_contains(text, projection) THEN Some(href) ELSE projection_url)

_extract_links(cell) == extract_links_loop(find_all_a(cell), None, None)

----------------------------------------------------------------------------
(* _extract_links, applied to every short sequence of sample links *)

MaxLinks == 3

\* "/newsevents/s.pdf"
HrefStatement == <<"/","n","e","w","s","e","v","e","n","t","s","/","s",".","p","d","f">>
\* "https://x.org/p.pdf"
HrefProjection == <<"h","t","t","p","s",":","/","/","x",".","o","r","g","/","p",".","p","d","f">>
\* "files/o.pdf"
HrefOther == <<"f","i","l","e","s","/","o",".","p","d","f">>

\* "Statement"
LinkStatement == Anchor(<<<<"S","t","a","t","e","m","e","n","t">>>>, Some(HrefStatement))
\* "Press Conference Projection Materials"
LinkProjection == Anchor(<<<<"P","r","e","s","s"," ","C","o","n","f","e","r","e","n","c","e"," ","P","r","o","j","e","c","t","i","o","n"," ","M","a","t","e","r","i","a","l","s">>>>, Some(HrefProjection))
\* " STATEMENT and ", "projections "
LinkBoth == Anchor(<<<<" ","S","T","A","T","E","M","E","N","T"," ","a","n","d"," ">>, <<"p","r","o","j","e","c","t","i","o","n","s"," ">>>>, Some(HrefOther))
\* "Minutes", "/m.htm"
LinkNeither == Anchor(<<<<"M","i","n","u","t","e","s">>>>, Some(<<"/","m",".","h","t","m">>))
\* "Statement"
LinkNoHref == Anchor(<<<<"S","t","a","t","e","m","e","n","t">>>>, None)
\* "Projection Materials"
LinkEmptyHref == Anchor(<<<<"P","r","o","j","e","c","t","i","o","n"," ","M","a","t","e","r","i","a","l","s">>>>, Some(<<>>))

LinkSamples ==
    {LinkStatement, LinkProjection, LinkBoth, LinkNeither, LinkNoHref, LinkEmptyHref,
     \* "Statement: "
     TextNode(<<"S","t","a","t","e","m","e","n","t",":"," ">>)}

InitLinks ==
    /\ fn = "_extract_links"
    /\ arg \in UNION {[1..k -> LinkSamples] : k \in 0..MaxLinks}
    /\ ret = None
    /\ Idle

CallExtractLinks ==
    /\ fn = "_extract_links"
    /\ ret = None
    /\ ret' = Some(_extract_links(arg))
    /\ UNCHANGED <<fn, arg>>
    /\ IdleUnchanged

NextLinks == CallExtractLinks

SpecLinks == InitLinks /\ [][NextLinks]_vars

LinksCalled == fn = "_extract_links" /\ ret.has

\* the visible text of node i of the cell contains the word, whatever the case
Mentions(cell, i, word) ==
    cell[i].tag = "a" /\ str_contains(str_lower(get_text_strip(cell[i].strings)), word)

\* the URL of a hyperlink, resolved against the calendar page
ResolvedUrl(link) ==
    IF link.href.has THEN Some(urljoin(CALENDAR_URL, link.href.val)) ELSE None

\* the URL of the last node among `matching`, absent if there is none
UrlOfLast(cell, matching) ==
    IF matching = {} THEN None
    ELSE ResolvedUrl(cell[CHOOSE i \in matching : \A j \in matching : j <= i])

\* "https://www.federalreserve.gov/newsevents/s.pdf"
ResolvedStatement == <<"h","t","t","p","s",":","/","/","w","w","w",".","f","e","d","e","r","a","l","r","e","s","e","r","v","e",".","g","o","v","/","n","e","w","s","e","v","e","n","t","s","/","s",".","p","d","f">>

\* C7 as stated: statement_url is the resolved URL of the last link whose text
\* contains "statement" (absent if none), projection_url that of the last link
\* whose text contains "projection", for any sequence of links.
C7_AsStated ==
    LinksCalled =>
        /\ ret.val[1] = UrlOfLast(arg, {i \in DOMAIN arg : Mentions(arg, i, statement)})
        /\ ret.val[2] = UrlOfLast(arg, {i \in DOMAIN arg : Mentions(arg, i, projection)})

\* a link the loop does not skip: it carries a non-empty href
HasUrl(cell, i) == cell[i].href.has /\ cell[i].href.val # <<>>

\* C7 amended: among the links that carry a non-empty href, statement_url is the
\* resolved URL of the last one whose text contains "statement" case-insensitively
\* (absent if none) and projection_url that of the last one whose text contains
\* "projection"; a link containing both sets both, one matching neither changes
\* nothing; links "Statement" and "Press Conference Projection Materials" give the
\* first URL as statement_url and the second as projection_url.
C7_Links ==
    LinksCalled =>
        /\ ret.val[1] = UrlOfLast(arg, {i \in DOMAIN arg : HasUrl(arg, i) /\ Mentions(arg, i, statement)})
        /\ ret.val[2] = UrlOfLast(arg, {i \in DOMAIN arg : HasUrl(arg, i) /\ Mentions(arg, i, projection)})
        /\ arg = <<LinkStatement, LinkProjection>>
               => ret.val = <<Some(ResolvedStatement), Some(HrefProjection)>>
        /\ arg = <<LinkStatement, LinkBoth>>
               => ret.val[1] = ret.val[2] /\ ret.val[1] # Some(ResolvedStatement)

C7_Witness ==
    LinksCalled /\ arg = <<LinkStatement, LinkBoth, LinkProjection>>

----------------------------------------------------------------------------
(* _parse_meeting_date *)

\* calendar.month_name[1:], lowercased: the names strptime's %B accepts (in the C
\* and English locales)
MonthNames ==
    \* "january", "february"
    <<<<"j","a","n","u","a","r","y">>, <<"f","e","b","r","u","a","r","y">>, <<"m","a","r","c","h">>, <<"a","p","r","i","l">>, <<"m","a","y">>, <<"j","u","n","e">>,
      \* "august", "september", "october", "november", "december"
      <<"j","u","l","y">>, <<"a","u","g","u","s","t">>, <<"s","e","p","t","e","m","b","e","r">>, <<"o","c","t","o","b","e","r">>, <<"n","o","v","e","m","b","e","r">>, <<"d","e","c","e","m","b","e","r">>>>

\* calendar.month_abbr[1:], lowercased: the names strptime's %b accepts
MonthAbbrs ==
    <<<<"j","a","n">>, <<"f","e","b">>, <<"m","a","r">>, <<"a","p","r">>, <<"m","a","y">>, <<"j","u","n">>,
      <<"j","u","l">>, <<"a","u","g">>, <<"s","e","p">>, <<"o","c","t">>, <<"n","o","v">>, <<"d","e","c">>>>

IsLeap(y) == (y % 4 = 0 /\ y % 100 # 0) \/ y % 400 = 0

DaysInMonth(y, m) ==
    IF m = 2 THEN (IF IsLeap(y) THEN 29 ELSE 28)
    ELSE IF m \in {4, 6, 9, 11} THEN 30 ELSE 31

\* what a raise ValueError leaves the caller with
ValueError == [has |-> FALSE, raised |-> "ValueError"]

\* the length of the longest prefix of s whose characters satisfy Class, up to max
RECURSIVE PrefixLen(_, _, _)
PrefixLen(s, class, max) ==
    IF s = <<>> \/ max = 0 \/ s[1] \notin class THEN 0
    ELSE 1 + PrefixLen(Tail(s), class, max - 1)

\* re.match(r"([A-Za-z]+)\s+([0-9]{1,2})(?:[-...][0-9]{1,2})?", cleaned): the two
\* groups, or None. The optional group captures nothing and never makes the match fail.
MonthDayMatch(cleaned) ==
    LET n1 == PrefixLen(cleaned, Letters, Len(cleaned))
        rest1 == SubSeq(cleaned, n1 + 1, Len(cleaned))
        n2 == PrefixLen(rest1, Spaces, Len(rest1))
        rest2 == SubSeq(rest1, n2 + 1, Len(rest1))
        n3 == PrefixLen(rest2, DigitSet, 2)
    IN  IF n1 = 0 \/ n2 = 0 \/ n3 = 0 THEN None
        ELSE Some(<<SubSeq(cleaned, 1, n1), SubSeq(rest2, 1, n3)>>)

\* datetime.strptime(f"{month_name} {day_part} {year}", fmt).date(), the month
\* directive of fmt accepting `names` (case-insensitively); %d accepts 1..31 with an
\* optional leading zero; the date must exist
strptime_date(month_name, day_part, year, names) ==
    LET name == str_lower(month_name)
        day == ParseInt(day_part)
    IN  IF ~\E m \in 1..12 : names[m] = name THEN ValueError
        ELSE
            LET month == CHOOSE m \in 1..12 : names[m] = name
            IN  IF day < 1 \/ day > 31 THEN ValueError
                ELSE IF day > DaysInMonth(year, month) THEN ValueError
                ELSE Some(Date(year, month, day))

_parse_meeting_date(raw_text, year) ==
    LET cleaned == SelectSeq(
            str_replace(str_replace(str_before(_normalize_whitespace(raw_text), ":"),
                                    "ndash", <<"-">>), "mdash", <<"-">>),
            LAMBDA c : c # ",")
        month_match == MonthDayMatch(cleaned)
    IN  IF ~month_match.has THEN ValueError
        ELSE strptime_date(month_match.val[1], month_match.val[2], year, MonthNames)

----------------------------------------------------------------------------
(* _parse_meeting_date, applied to header texts "<Month> <D1><rest>" *)

\* how a header may write month m: in full, abbreviated, in another case
MonthWritings(m) ==
    LET Cap(s) == <<Upper[CHOOSE i \in 1..26 : Lower[i] = s[1]]>> \o Tail(s)
    IN  {[month |-> m, text |-> Cap(MonthNames[m]), full |-> TRUE],
         [month |-> m, text |-> MonthNames[m], full |-> TRUE],
         [month |-> m, text |-> Cap(MonthAbbrs[m]), full |-> MonthAbbrs[m] = MonthNames[m]]}

SampleMonths == {1, 2, 5, 9}

\* a first day as the header writes it, and its value
DayWritings ==
    {[text |-> <<"3","0">>, day |-> 30], [text |-> <<"7">>, day |-> 7],
     [text |-> <<"0","7">>, day |-> 7], [text |-> <<"2","9">>, day |-> 29]}

\* what follows the first day: nothing, the second day of a range, a note
RangeWritings ==
    {[text |-> <<>>, range |-> FALSE],
     [text |-> <<"-","3","1">>, range |-> TRUE],
     [text |-> <<"ndash">> \o <<"8">>, range |-> TRUE],
     \* "-31: notation vote"
     [text |-> <<"-","3","1",":"," ","n","o","t","a","t","i","o","n"," ","v","o","t","e">>, range |-> TRUE],
     \* "-February 1, 2024"
     [text |-> <<"-","F","e","b","r","u","a","r","y"," ","1",","," ","2","0","2","4">>, range |-> FALSE],
     \* " (unscheduled)"
     [text |-> <<" ","(","u","n","s","c","h","e","d","u","l","e","d",")">>, range |-> FALSE]}

HeaderYears == {2023, 2024}

HeaderInputs ==
    {[month |-> w.month, full |-> w.full, day |-> d.day, range |-> r.range, year |-> y,
      raw_text |-> w.text \o <<" ">> \o d.text \o r.text] :
        w \in UNION {MonthWritings(m) : m \in SampleMonths},
        d \in DayWritings, r \in RangeWritings, y \in HeaderYears}

\* "Jan 30-31"
HeaderJan3031 == <<"J","a","n"," ","3","0","-","3","1">>

\* "January 30-31"
HeaderJanuary3031 == <<"J","a","n","u","a","r","y"," ","3","0","-","3","1">>

InitDate ==
    /\ fn = "_parse_meeting_date"
    /\ arg \in HeaderInputs
    /\ ret = None
    /\ Idle

CallParseMeetingDate ==
    /\ fn = "_parse_meeting_date"
    /\ ret = None
    /\ ret' = Some(_parse_meeting_date(arg.raw_text, arg.year))
    /\ UNCHANGED <<fn, arg>>
    /\ IdleUnchanged

NextDate == CallParseMeetingDate

SpecDate == InitDate /\ [][NextDate]_vars

DateCalled == fn = "_parse_meeting_date" /\ ret.has

\* C5: a header "<Month> <D1>-<D2>", the month abbreviated or in full, with inferred
\* year Y parses to the date Y-<Month>-<D1> whenever that date exists; "Jan 30-31"
\* with year 2024 parses to 2024-01-30.
C5_AsStated ==
    (DateCalled /\ arg.range /\ arg.day <= DaysInMonth(arg.year, arg.month))
        => ret.val = Some(Date(arg.year, arg.month, arg.day))

\* the same for month names written in full, which is what the code does
C5_FullNames ==
    (DateCalled /\ arg.range /\ arg.full /\ arg.day <= DaysInMonth(arg.year, arg.month))
        => ret.val = Some(Date(arg.year, arg.month, arg.day))

C5_FullNamesWitness ==
    DateCalled /\ arg.raw_text = HeaderJanuary3031 /\ arg.year = 2024

----------------------------------------------------------------------------
(* parse_calendar *)

\* re.search(r"(20\d{2})", text): the leftmost "20" followed by two digits
_extract_year_from_text(text) ==
    LET Hit(i) == /\ text[i] = "2" /\ text[i + 1] = "0"
                  /\ IsDigit(text[i + 2]) /\ IsDigit(text[i + 3])
        hits == {i \in 1..(Len(text) - 3) : Hit(i)}
    IN  IF hits = {} THEN None
        ELSE LET i == CHOOSE h \in hits : \A k \in hits : h <= k
             IN  Some(ParseInt(SubSeq(text, i, i + 3)))

\* An ancestor of a row: the attributes the code reads (None when absent) and
\* its get_text(" ", strip=True)
Ancestor(id, data_year, aria_labelledby, text) ==
    [id |-> id, data_year |-> data_year, aria_labelledby |-> aria_labelledby, text |-> text]

\* the candidate sources of one ancestor, in the order the code tries them
candidate_sources(ancestor) ==
    LET attr(v) == IF v.has THEN <<v.val>> ELSE <<>>
    IN  attr(ancestor.id) \o attr(ancestor.data_year) \o attr(ancestor.aria_labelledby)
            \o <<ancestor.text>>

\* the first source that yields a year
RECURSIVE first_year(_)
first_year(sources) ==
    IF sources = <<>> THEN None
    ELSE IF _extract_year_from_text(Head(sources)).has
         THEN _extract_year_from_text(Head(sources))
         ELSE first_year(Tail(sources))

\* row.parents runs from the nearest ancestor to the root
RECURSIVE find_year_in(_)
find_year_in(parents) ==
    IF parents = <<>> THEN None
    ELSE IF first_year(candidate_sources(Head(parents))).has
         THEN first_year(candidate_sources(Head(parents)))
         ELSE find_year_in(Tail(parents))

_find_year_for_row(row) == find_year_in(row.parents)

\* row.find_previous(["h2", "h3", "h4", "h5"]) is row.heading: the text of the
\* nearest preceding heading, None when there is none
_find_context_label(row) ==
    IF row.heading.has /\ _normalize_whitespace(row.heading.val) # <<>>
    THEN Some(_normalize_whitespace(row.heading.val))
    ELSE None

\* A <tr>: the text of its first <th> and the children of its first <td> (None
\* when it has none), its ancestors and the heading before it
Row(th, td, parents, heading) ==
    [th |-> th, td |-> td, parents |-> parents, heading |-> heading]

\* current_year - max_years, a window one year too long
min_year_off_by_one(current_year, max_years) == current_year - max_years

min_year_of(current_year, max_years) == current_year - max_years + 1

\* the body of the loop over soup.find_all("tr"): the record the row appends, or
\* <<>> when the row is skipped
scan_row(row, min_year) ==
    IF ~row.th.has \/ ~row.td.has THEN <<>>
    ELSE
        LET year == _find_year_for_row(row)
        IN  IF ~year.has \/ year.val < min_year THEN <<>>
            ELSE
                LET date_text == _normalize_whitespace(row.th.val)
                    meeting_date == _parse_meeting_date(date_text, year.val)
                IN  IF ~meeting_date.has THEN <<>>
                    ELSE
                        LET urls == _extract_links(row.td.val)
                            context == _find_context_label(row)
                            description == _normalize_whitespace(cell_text(row.td.val))
                            label == IF description # <<>> THEN description
                                     ELSE IF context.has THEN context.val
                                     ELSE <<"F","O","M","C"," ">> \o ZeroPad(year.val, 1)
                        IN  <<MeetingDocuments(meeting_date.val, label, urls[1], urls[2])>>

RECURSIVE scan_rows(_, _)
scan_rows(rows, min_year) ==
    IF rows = <<>> THEN <<>>
    ELSE scan_row(Head(rows), min_year) \o scan_rows(Tail(rows), min_year)

\* an insertion that puts a record before the records of the same date
RECURSIVE insert_before_equal(_, _)
insert_before_equal(sorted, m) ==
    IF sorted = <<>> THEN <<m>>
    ELSE IF ~DateLess(Head(sorted).meeting_date, m.meeting_date) THEN <<m>> \o sorted
    ELSE <<Head(sorted)>> \o insert_before_equal(Tail(sorted), m)

\* list.sort is stable: a record goes after every record whose key is not greater
RECURSIVE insert_by_date(_, _)
insert_by_date(sorted, m) ==
    IF sorted = <<>> THEN <<m>>
    ELSE IF DateLess(m.meeting_date, Head(sorted).meeting_date) THEN <<m>> \o sorted
    ELSE <<Head(sorted)>> \o insert_by_date(Tail(sorted), m)

\* meetings.sort(key=lambda m: m.meeting_date)
RECURSIVE sort_by_meeting_date(_)
sort_by_meeting_date(meetings) ==
    IF meetings = <<>> THEN <<>>
    ELSE insert_by_date(sort_by_meeting_date(SubSeq(meetings, 1, Len(meetings) - 1)),
                        meetings[Len(meetings)])

\* html is the sequence of the page's <tr> elements, in document order
parse_calendar(html, max_years, current_year) ==
    sort_by_meeting_date(scan_rows(html, min_year_of(current_year, max_years)))

DATE_RANGE_YEARS == 10

----------------------------------------------------------------------------
(* parse_calendar, applied to every short page of sample rows *)

MaxRows == 3

\* a panel whose id names the year, around a table whose text names none
Parents2024 ==
    \* "January 30-31 Statement"
    <<Ancestor(None, None, None, <<"J","a","n","u","a","r","y"," ","3","0","-","3","1"," ","S","t","a","t","e","m","e","n","t">>),
      \* "article2024", "2024 FOMC Meetings January 30-31 Statement"
      Ancestor(Some(<<"a","r","t","i","c","l","e","2","0","2","4">>), None, None, <<"2","0","2","4"," ","F","O","M","C"," ","M","e","e","t","i","n","g","s"," ","J","a","n","u","a","r","y"," ","3","0","-","3","1"," ","S","t","a","t","e","m","e","n","t">>)>>

\* the year is found in the text of the second ancestor
Parents2019 ==
    \* "December 10-11"
    <<Ancestor(Some(<<"t","1">>), None, None, <<"D","e","c","e","m","b","e","r"," ","1","0","-","1","1">>),
      \* "Meetings of 2019 (updated 2024)"
      Ancestor(None, None, None, <<"M","e","e","t","i","n","g","s"," ","o","f"," ","2","0","1","9"," ","(","u","p","d","a","t","e","d"," ","2","0","2","4",")">>)>>

\* data-year is tried before the text
Parents2015 ==
    \* "2024 archive"
    <<Ancestor(None, Some(<<"2","0","1","5">>), None, <<"2","0","2","4"," ","a","r","c","h","i","v","e">>)>>

\* no ancestor yields a year
ParentsNoYear ==
    \* "calendar", "Meetings 1999-20x4"
    <<Ancestor(Some(<<"c","a","l","e","n","d","a","r">>), None, None, <<"M","e","e","t","i","n","g","s"," ","1","9","9","9","-","2","0","x","4">>)>>

\* " 2024  FOMC Meetings "
Heading2024 == Some(<<" ","2","0","2","4"," "," ","F","O","M","C"," ","M","e","e","t","i","n","g","s"," ">>)

RowJan3031 ==
    \* "January 30-31"
    Row(Some(<<"J","a","n","u","a","r","y"," ","3","0","-","3","1">>), Some(<<LinkStatement, TextNode(<<" ">>), LinkProjection>>),
        Parents2024, Heading2024)
RowJan30Vote ==
    \* "January 30", "Notation vote"
    Row(Some(<<"J","a","n","u","a","r","y"," ","3","0">>), Some(<<TextNode(<<"N","o","t","a","t","i","o","n"," ","v","o","t","e">>)>>), Parents2024, Heading2024)
RowMar19 ==
    \* " March  19-20* "
    Row(Some(<<" ","M","a","r","c","h"," "," ","1","9","-","2","0","*"," ">>), Some(<<>>), Parents2024, Heading2024)
RowDec2019 ==
    \* "December 10-11"
    Row(Some(<<"D","e","c","e","m","b","e","r"," ","1","0","-","1","1">>), Some(<<LinkBoth>>), Parents2019, None)
RowOct2015 ==
    \* "October 28-29"
    Row(Some(<<"O","c","t","o","b","e","r"," ","2","8","-","2","9">>), Some(<<TextNode(<<" ">>)>>), Parents2015, Some(<<" ">>))
RowAbbrev ==
    \* "Jan 30-31"
    Row(Some(<<"J","a","n"," ","3","0","-","3","1">>), Some(<<LinkStatement>>), Parents2024, Heading2024)
RowNoTd ==
    \* "April 30"
    Row(Some(<<"A","p","r","i","l"," ","3","0">>), None, Parents2024, Heading2024)
RowNoTh ==
    Row(None, Some(<<LinkStatement>>), Parents2024, Heading2024)
RowNoYear ==
    \* "June 11-12"
    Row(Some(<<"J","u","n","e"," ","1","1","-","1","2">>), Some(<<LinkStatement>>), ParentsNoYear, None)

RowSamples ==
    {RowJan3031, RowJan30Vote, RowMar19, RowDec2019, RowOct2015,
     RowAbbrev, RowNoTd, RowNoTh, RowNoYear}

Pages == UNION {[1..k -> RowSamples] : k \in 0..MaxRows}

CurrentYears == {2024, 2025}
Windows == {5, DATE_RANGE_YEARS}

InitParse ==
    /\ fn = "parse_calendar"
    /\ arg \in [html : Pages, max_years : Windows, current_year : CurrentYears]
    /\ ret = None
    /\ Idle

CallParseCalendar ==
    /\ fn = "parse_calendar"
    /\ ret = None
    /\ ret' = Some(parse_calendar(arg.html, arg.max_years, arg.current_year))
    /\ UNCHANGED <<fn, arg>>
    /\ IdleUnchanged

NextParse == CallParseCalendar

SpecParse == InitParse /\ [][NextParse]_vars

ParseCalled == fn = "parse_calendar" /\ ret.has

\* the records of a list that carry a date, in the order of the list
OnDate(meetings, d) == SelectSeq(meetings, LAMBDA m : m.meeting_date = d)

\* C4: the list parse_calendar returns is ascending by meeting_date whatever the
\* order of the rows, and records of the same date keep the order in which their
\* rows were encountered.
C4_SortedStable ==
    ParseCalled =>
        LET encountered ==
                scan_rows(arg.html, arg.current_year - arg.max_years + 1)
        IN  /\ \A i, j \in DOMAIN ret.val :
                   i < j => ~DateLess(ret.val[j].meeting_date, ret.val[i].meeting_date)
            /\ Len(ret.val) = Len(encountered)
            /\ \A k \in DOMAIN encountered :
                   OnDate(ret.val, encountered[k].meeting_date)
                       = OnDate(encountered, encountered[k].meeting_date)

C4_Witness ==
    /\ ParseCalled
    /\ arg.html = <<RowMar19, RowJan30Vote, RowJan3031>>
    /\ arg.current_year = 2024
    /\ Len(ret.val) = 3
    \* "Notation vote"
    /\ ret.val[1].label = <<"N","o","t","a","t","i","o","n"," ","v","o","t","e">>
    /\ ret.val[2].label # ret.val[1].label
    /\ ret.val[2].meeting_date = ret.val[1].meeting_date

\* the row lies in the window: an ancestor yields a year, not before C - W + 1
InWindow(row, current_year, max_years) ==
    /\ _find_year_for_row(row).has
    /\ _find_year_for_row(row).val >= current_year - max_years + 1

\* C8: every returned record has meeting_date.year >= C - W + 1, and the rows
\* whose inferred year is earlier, or for which no ancestor yields a year, are
\* excluded: the result is that of the page without them.
C8_YearWindow ==
    ParseCalled =>
        /\ \A i \in DOMAIN ret.val :
               ret.val[i].meeting_date.year >= arg.current_year - arg.max_years + 1
        /\ Len(ret.val) <=
               Cardinality({i \in DOMAIN arg.html :
                               InWindow(arg.html[i], arg.current_year, arg.max_years)})
        /\ ret.val = parse_calendar(
               SelectSeq(arg.html, LAMBDA r : InWindow(r, arg.current_year, arg.max_years)),
               arg.max_years, arg.current_year)

C8_Witness ==
    /\ ParseCalled
    /\ arg.html = <<RowDec2019, RowNoYear, RowJan3031>>
    /\ arg.max_years = 5
    /\ arg.current_year = 2024
    /\ Len(ret.val) = 1
    /\ ret.val[1].meeting_date = Date(2024, 1, 30)

----------------------------------------------------------------------------
(* The base directory *)

\* Path("data/fomc_statements"), the default of --base-dir and the directory of
\* the server's LOG_PATH
\* "data/fomc_statements"
BASE_DIR == <<"d","a","t","a","/","f","o","m","c","_","s","t","a","t","e","m","e","n","t","s">>

\* base_dir / str(year) / f"{stub}_{kind}.pdf", as its as_posix() text
document_path(meeting, kind) ==
    BASE_DIR \o <<"/">> \o ZeroPad(meeting_year(meeting), 1) \o <<"/">>
        \o filename_stub(meeting) \o <<"_">> \o kind \o <<".","p","d","f">>

\* Path.parent
path_parent(path) ==
    LET last == CHOOSE i \in DOMAIN path : path[i] = "/" /\ \A j \in DOMAIN path : j > i => path[j] # "/"
    IN  SubSeq(path, 1, last - 1)

\* "missing"
missing == <<"m","i","s","s","i","n","g">>

LOG_HEADER ==
    \* "timestamp", "meeting_date", "meeting_label", "statement_path"
    <<<<"t","i","m","e","s","t","a","m","p">>, <<"m","e","e","t","i","n","g","_","d","a","t","e">>, <<"m","e","e","t","i","n","g","_","l","a","b","e","l">>, <<"s","t","a","t","e","m","e","n","t","_","p","a","t","h">>,
      \* "projection_path", "source_url"
      <<"p","r","o","j","e","c","t","i","o","n","_","p","a","t","h">>, <<"s","o","u","r","c","e","_","u","r","l">>>>

\* a file of the directory: its bytes, and the run and meeting that last wrote it
File(content, run_no, meeting_no) == [content |-> content, written_by |-> <<run_no, meeting_no>>]

\* f[k] set to v, k added to the domain when new
Put(f, k, v) == [x \in DOMAIN f \cup {k} |-> IF x = k THEN v ELSE f[x]]

\* _ensure_headers rewriting the log on every construction of the logger
ensure_headers_truncating(fsys) ==
    [fsys EXCEPT !.log = Some(<<LOG_HEADER>>), !.dirs = @ \cup {BASE_DIR}]

\* DownloadLogger._ensure_headers
_ensure_headers(fsys) ==
    IF ~fsys.log.has
    THEN [fsys EXCEPT !.log = Some(<<LOG_HEADER>>), !.dirs = @ \cup {BASE_DIR}]
    ELSE fsys

\* datetime.utcnow().isoformat(): the text of the tick
utcnow_isoformat(now) == ZeroPad(now, 1)

\* the line record() adds to missing_projections.txt
missing_line(meeting) ==
    isoformat(meeting.meeting_date) \o <<" ">> \o meeting.label
        \* ": missing projection materials"
        \o <<":"," ","m","i","s","s","i","n","g"," ","p","r","o","j","e","c","t","i","o","n"," ","m","a","t","e","r","i","a","l","s">>

\* open(path, "a"): the file is created when absent
append_line(file, line) == IF file.has THEN Some(Append(file.val, line)) ELSE Some(<<line>>)

\* record() writing the missing-projections line when the statement is absent
record_tests_statement(fsys, meeting, statement_path, projection_path, now) ==
    LET row == <<utcnow_isoformat(now), isoformat(meeting.meeting_date), meeting.label,
                 IF statement_path.has THEN statement_path.val ELSE missing,
                 IF projection_path.has THEN projection_path.val ELSE missing,
                 meeting.source_url>>
        logged == [fsys EXCEPT !.log = append_line(@, row)]
    IN  IF ~statement_path.has
        THEN [logged EXCEPT !.missing = append_line(@, missing_line(meeting))]
        ELSE logged

\* DownloadLogger.record
record(fsys, meeting, statement_path, projection_path, now) ==
    LET row == <<utcnow_isoformat(now), isoformat(meeting.meeting_date), meeting.label,
                 IF statement_path.has THEN statement_path.val ELSE missing,
                 IF projection_path.has THEN projection_path.val ELSE missing,
                 meeting.source_url>>
        logged == [fsys EXCEPT !.log = append_line(@, row)]
    IN  IF ~projection_path.has
        THEN [logged EXCEPT !.missing = append_line(@, missing_line(meeting))]
        ELSE logged

----------------------------------------------------------------------------
(* _download_file *)

\* What requests.get(url, timeout=30) does: raises a RequestException, or returns
\* a response with a status, a Content-Type header (None when absent) and a body
RequestException == [raises |-> TRUE]
Response(status, content_type, content) ==
    [raises |-> FALSE, status |-> status, content_type |-> content_type, content |-> content]

pdf == <<"p","d","f">>

\* response.raise_for_status() raises for a 4xx or 5xx status
raises_for_status(response) == response.status >= 400 /\ response.status < 600

\* "pdf" in response.headers.get("Content-Type", "").lower()
declares_pdf(response) ==
    str_contains(str_lower(IF response.content_type.has THEN response.content_type.val
                                                        ELSE <<>>), pdf)

\* _download_file without the content-type check
download_file_unchecked(fsys, destination, response, run_no, meeting_no) ==
    LET made == [fsys EXCEPT !.dirs = @ \cup {path_parent(destination)}]
    IN  IF response.raises \/ raises_for_status(response)
        THEN [fs |-> made, ret |-> None]
        ELSE [fs |-> [made EXCEPT !.files =
                          Put(@, destination, File(response.content, run_no, meeting_no))],
              ret |-> Some(destination)]

\* _download_file returning the destination whatever happened
download_file_always_path(fsys, destination, response, run_no, meeting_no) ==
    LET made == [fsys EXCEPT !.dirs = @ \cup {path_parent(destination)}]
    IN  IF response.raises \/ raises_for_status(response) \/ ~declares_pdf(response)
        THEN [fs |-> made, ret |-> Some(destination)]
        ELSE [fs |-> [made EXCEPT !.files =
                          Put(@, destination, File(response.content, run_no, meeting_no))],
              ret |-> Some(destination)]

\* _download_file(url, destination), given what the GET of url does; run_no and
\* meeting_no only stamp the file written
_download_file(fsys, destination, response, run_no, meeting_no) ==
    LET made == [fsys EXCEPT !.dirs = @ \cup {path_parent(destination)}]
    IN  IF response.raises \/ raises_for_status(response) THEN [fs |-> made, ret |-> None]
        ELSE IF ~declares_pdf(response) THEN [fs |-> made, ret |-> None]
        ELSE [fs |-> [made EXCEPT !.files =
                          Put(@, destination, File(response.content, run_no, meeting_no))],
              ret |-> Some(destination)]

----------------------------------------------------------------------------
(* main and download_documents *)

MaxRuns == 2

\* what the GET of a document may do
Responses ==
    {RequestException,
     \* "text/html"
     Response(404, Some(<<"t","e","x","t","/","h","t","m","l">>), "html"),
     \* "text/html"
     Response(200, Some(<<"t","e","x","t","/","h","t","m","l">>), "html"),
     Response(200, None, "bytes"),
     \* "Application/PDF"
     Response(200, Some(<<"A","p","p","l","i","c","a","t","i","o","n","/","P","D","F">>), "pdf")}

\* the calendar pages the GET of CALENDAR_URL may return
RunPages ==
    {<<RowMar19, RowJan3031>>, <<RowDec2019>>, <<RowNoYear>>}

\* date.today().year
CurrentYear == 2024

Init ==
    /\ fn = "main"
    /\ arg = None
    /\ ret = None
    /\ fs = EmptyDir
    /\ pc = "idle"
    /\ run = None
    /\ clock = 0
    /\ runs = 0
    /\ resp = None

HarnessUnchanged == UNCHANGED <<fn, arg, ret>>

\* main: the GET of the calendar page fails and main exits (SystemExit) before
\* anything is parsed or written
MainFetchFails ==
    /\ pc = "idle"
    /\ UNCHANGED <<fs, pc, run, clock, runs, resp>>
    /\ HarnessUnchanged

\* main without --download: the page is parsed and the count printed; no logger
\* is constructed and nothing is written
MainMetadataOnly ==
    /\ pc = "idle"
    /\ \E html \in RunPages, years \in Windows :
           Len(parse_calendar(html, years, CurrentYear)) >= 0
    /\ UNCHANGED <<fs, pc, run, clock, runs, resp>>
    /\ HarnessUnchanged

\* main with --download, up to the first iteration of download_documents: the
\* page is parsed and the logger constructed
MainDownload ==
    /\ pc = "idle"
    /\ runs < MaxRuns
    /\ \E html \in RunPages, years \in Windows :
        LET meetings == parse_calendar(html, years, CurrentYear)
        IN  /\ run' = Some([download |-> TRUE, meetings |-> meetings, idx |-> 1,
                            statement_path |-> None, projection_path |-> None,
                            response |-> None, log_before |-> fs.log])
            /\ pc' = IF meetings = <<>> THEN "idle" ELSE "statement"
    /\ fs' = _ensure_headers(fs)
    /\ runs' = runs + 1
    /\ resp' = None
    /\ UNCHANGED clock
    /\ HarnessUnchanged

\* the meeting of the current iteration
Meeting == run.val.meetings[run.val.idx]

\* download_documents: the statement of the current meeting
DownloadStatement ==
    /\ pc = "statement"
    /\ IF Meeting.statement_url.has /\ Meeting.statement_url.val # <<>>
       THEN \E response \in Responses :
               \* "statement"
               LET got == _download_file(fs, document_path(Meeting, <<"s","t","a","t","e","m","e","n","t">>), response,
                                         runs, run.val.idx)
               IN  /\ fs' = got.fs
                   /\ run' = Some([run.val EXCEPT !.statement_path = got.ret,
                                                  !.projection_path = None,
                                                  !.response = Some(response)])
       ELSE /\ fs' = fs
            /\ run' = Some([run.val EXCEPT !.statement_path = None,
                                           !.projection_path = None,
                                           !.response = None])
    /\ pc' = "projection"
    /\ resp' = None
    /\ UNCHANGED <<clock, runs>>
    /\ HarnessUnchanged

\* download_documents: the projection materials of the current meeting
DownloadProjection ==
    /\ pc = "projection"
    /\ IF Meeting.projection_url.has /\ Meeting.projection_url.val # <<>>
       THEN \E response \in Responses :
               \* "projections"
               LET got == _download_file(fs, document_path(Meeting, <<"p","r","o","j","e","c","t","i","o","n","s">>), response,
                                         runs, run.val.idx)
               IN  /\ fs' = got.fs
                   /\ run' = Some([run.val EXCEPT !.projection_path = got.ret,
                                                  !.response = Some(response)])
       ELSE /\ fs' = fs
            /\ run' = Some([run.val EXCEPT !.response = None])
    /\ pc' = "record"
    /\ resp' = None
    /\ UNCHANGED <<clock, runs>>
    /\ HarnessUnchanged

\* download_documents: logger.record, successful.append, and the next iteration
\* or the return
Record ==
    /\ pc = "record"
    /\ fs' = record(fs, Meeting, run.val.statement_path, run.val.projection_path, clock)
    /\ clock' = clock + 1
    /\ run' = Some([run.val EXCEPT !.idx = @ + 1, !.response = None])
    /\ pc' = IF run.val.idx = Len(run.val.meetings) THEN "idle" ELSE "statement"
    /\ resp' = None
    /\ UNCHANGED runs
    /\ HarnessUnchanged

----------------------------------------------------------------------------
(* The catalog API (server.py) *)

\* the characters in the order of their code points, for the comparison of str
CodeOrder ==
    <<"\t", "\n", " ", "(", ")", "*", ",", "-", ".", "/">> \o Digits \o <<":">> \o Upper
        \o <<"_">> \o Lower \o <<"nbsp", "ndash", "mdash">>

CodeOf == [c \in Range(CodeOrder) |-> CHOOSE i \in DOMAIN CodeOrder : CodeOrder[i] = c]

\* a < b for two str
RECURSIVE StrLess(_, _)
StrLess(a, b) ==
    IF b = <<>> THEN FALSE
    ELSE IF a = <<>> THEN TRUE
    ELSE IF a[1] = b[1] THEN StrLess(Tail(a), Tail(b))
    ELSE CodeOf[a[1]] < CodeOf[b[1]]

\* csv.DictReader: the first row names the fields of the others
DictRow(fieldnames, row) ==
    [name \in Range(fieldnames) |-> row[CHOOSE i \in DOMAIN fieldnames : fieldnames[i] = name]]

MeetingEntry(row) ==
    \* "meeting_date", "meeting_label"
    [meeting_date |-> row[<<"m","e","e","t","i","n","g","_","d","a","t","e">>], meeting_label |-> row[<<"m","e","e","t","i","n","g","_","l","a","b","e","l">>],
     \* "statement_path", "projection_path"
     statement_path |-> row[<<"s","t","a","t","e","m","e","n","t","_","p","a","t","h">>], projection_path |-> row[<<"p","r","o","j","e","c","t","i","o","n","_","p","a","t","h">>],
     \* "source_url"
     source_url |-> row[<<"s","o","u","r","c","e","_","u","r","l">>]]

_load_entries(fsys) ==
    IF ~fsys.log.has \/ fsys.log.val = <<>> THEN <<>>
    ELSE [i \in 1..(Len(fsys.log.val) - 1) |->
              MeetingEntry(DictRow(fsys.log.val[1], fsys.log.val[i + 1]))]

\* entry.meeting_date.split("-")[0]
year_of_entry(entry) == str_before(entry.meeting_date, "-")

\* grouped.setdefault(year, []).append(entry) over the entries: a dict, as the
\* sequence of its items in insertion order
RECURSIVE group_entries(_, _)
group_entries(entries, grouped) ==
    IF entries = <<>> THEN grouped
    ELSE
        LET entry == Head(entries)
            year == year_of_entry(entry)
        IN  group_entries(
                Tail(entries),
                IF \E k \in DOMAIN grouped : grouped[k][1] = year
                THEN [k \in DOMAIN grouped |->
                         IF grouped[k][1] = year
                         THEN <<year, Append(grouped[k][2], entry)>> ELSE grouped[k]]
                ELSE Append(grouped, <<year, <<entry>>>>))

\* values.sort(key=lambda item: item.meeting_date), stable
RECURSIVE sort_entries(_)
sort_entries(values) ==
    IF values = <<>> THEN <<>>
    ELSE
        LET RECURSIVE insert(_, _)
            insert(sorted, e) ==
                IF sorted = <<>> THEN <<e>>
                ELSE IF StrLess(e.meeting_date, Head(sorted).meeting_date) THEN <<e>> \o sorted
                ELSE <<Head(sorted)>> \o insert(Tail(sorted), e)
        IN  insert(sort_entries(SubSeq(values, 1, Len(values) - 1)), values[Len(values)])

\* sorted(items, key=lambda kv: kv[0]) without reverse=True
RECURSIVE sorted_items_ascending(_)
sorted_items_ascending(items) ==
    IF items = <<>> THEN <<>>
    ELSE
        LET RECURSIVE insert(_, _)
            insert(sorted, kv) ==
                IF sorted = <<>> THEN <<kv>>
                ELSE IF StrLess(kv[1], Head(sorted)[1]) THEN <<kv>> \o sorted
                ELSE <<Head(sorted)>> \o insert(Tail(sorted), kv)
        IN  insert(sorted_items_ascending(SubSeq(items, 1, Len(items) - 1)), items[Len(items)])

\* sorted(grouped.items(), key=lambda kv: kv[0], reverse=True)
RECURSIVE sorted_items_reverse(_)
sorted_items_reverse(items) ==
    IF items = <<>> THEN <<>>
    ELSE
        LET RECURSIVE insert(_, _)
            insert(sorted, kv) ==
                IF sorted = <<>> THEN <<kv>>
                ELSE IF StrLess(Head(sorted)[1], kv[1]) THEN <<kv>> \o sorted
                ELSE <<Head(sorted)>> \o insert(Tail(sorted), kv)
        IN  insert(sorted_items_reverse(SubSeq(items, 1, Len(items) - 1)), items[Len(items)])

_group_by_year(entries) ==
    LET grouped == group_entries(entries, <<>>)
    IN  sorted_items_reverse(
            [k \in DOMAIN grouped |-> <<grouped[k][1], sort_entries(grouped[k][2])>>])

\* The handlers are stateless and re-read the log on every request: a request
\* that follows another request computes what it would compute in its place, so
\* requests are taken after the steps of the collector only.

\* the years a client may ask for
YearParams == {<<"2","0","2","4">>, <<"2","0","1","9">>, <<"2","0","9","9">>}

ApiUnchanged == UNCHANGED <<fs, pc, run, clock, runs>>

\* GET /
root ==
    /\ resp = None
    /\ resp' = Some([endpoint |-> "/", year |-> <<>>, status |-> 200,
                     body |-> <<"/statements", "/statements/{year}", "/years">>])
    /\ ApiUnchanged
    /\ HarnessUnchanged

\* GET /years
list_years ==
    /\ resp = None
    /\ LET grouped == _group_by_year(_load_entries(fs))
       IN  resp' = Some([endpoint |-> "/years", year |-> <<>>, status |-> 200,
                         body |-> [k \in DOMAIN grouped |-> grouped[k][1]]])
    /\ ApiUnchanged
    /\ HarnessUnchanged

\* GET /statements
all_statements ==
    /\ resp = None
    /\ resp' = Some([endpoint |-> "/statements", year |-> <<>>, status |-> 200,
                     body |-> _group_by_year(_load_entries(fs))])
    /\ ApiUnchanged
    /\ HarnessUnchanged

\* GET /statements/{year}
statements_by_year ==
    /\ resp = None
    /\ \E year \in YearParams :
        LET grouped == _group_by_year(_load_entries(fs))
        IN  IF ~\E k \in DOMAIN grouped : grouped[k][1] = year
            THEN resp' = Some([endpoint |-> "/statements/{year}", year |-> year,
                               status |-> 404, body |-> <<>>])
            ELSE resp' = Some([endpoint |-> "/statements/{year}", year |-> year,
                               status |-> 200,
                               body |-> grouped[CHOOSE k \in DOMAIN grouped :
                                                    grouped[k][1] = year][2]])
    /\ ApiUnchanged
    /\ HarnessUnchanged

Next ==
    \/ MainFetchFails
    \/ MainMetadataOnly
    \/ MainDownload
    \/ DownloadStatement
    \/ DownloadProjection
    \/ Record
    \/ root
    \/ list_years
    \/ all_statements
    \/ statements_by_year

Spec == Init /\ [][Next]_vars

----------------------------------------------------------------------------
(* Properties of the collector and of the API *)

\* the rows of the log as the running (or last) download run found it
LogBefore == IF run.val.log_before.has THEN run.val.log_before.val ELSE <<LOG_HEADER>>

\* the meetings the run has recorded so far
Recorded == run.val.idx - 1

\* the log row of the k-th meeting of the run
RowOf(k) == fs.log.val[Len(LogBefore) + k]

\* row is a row for the meeting, in meeting_date and meeting_label
RowNames(row, meeting) ==
    row[2] = isoformat(meeting.meeting_date) /\ row[3] = meeting.label

\* C1: a download run over N meetings appends exactly one row per meeting, in
\* processing order and whatever the downloads did, N rows when it returns; the
\* rows that were in the log stay as they were; the header is written only when
\* the log did not exist; a second run over the same N meetings leaves 2N data
\* rows, the second N repeating the first N in meeting_date and meeting_label.
C1_AppendOnly ==
    run.has =>
        LET meetings == run.val.meetings
            N == Len(meetings)
        IN  /\ fs.log.has
            /\ Len(fs.log.val) = Len(LogBefore) + Recorded
            /\ SubSeq(fs.log.val, 1, Len(LogBefore)) = LogBefore
            /\ fs.log.val[1] = LOG_HEADER
            /\ \A i \in 2..Len(fs.log.val) : fs.log.val[i] # LOG_HEADER
            /\ \A k \in 1..Recorded : RowNames(RowOf(k), meetings[k])
            /\ pc = "idle" => Recorded = N
            /\ (/\ pc = "idle"
                /\ Len(LogBefore) = 1 + N
                /\ \A k \in 1..N : RowNames(LogBefore[1 + k], meetings[k]))
                   => /\ Len(fs.log.val) = 1 + 2 * N
                      /\ \A k \in 1..N :
                             /\ fs.log.val[1 + N + k][2] = fs.log.val[1 + k][2]
                             /\ fs.log.val[1 + N + k][3] = fs.log.val[1 + k][3]

C1_Witness ==
    /\ pc = "idle"
    /\ run.has
    /\ runs = 2
    /\ Len(run.val.meetings) = 2
    /\ Len(fs.log.val) = 5
    /\ \A k \in 1..2 : RowNames(fs.log.val[1 + k], run.val.meetings[k])
    /\ \A k \in 1..2 : RowNames(fs.log.val[3 + k], run.val.meetings[k])
    /\ fs.log.val[2][5] # fs.log.val[4][5]

\* a response with status 200 whose Content-Type does not indicate a PDF
SuccessfulNonPdf(response) ==
    /\ response.has
    /\ ~response.val.raises
    /\ response.val.status = 200
    \* "text/html"
    /\ response.val.content_type \in {None, Some(<<"t","e","x","t","/","h","t","m","l">>)}

\* C2: a download whose response is successful but does not declare a PDF returns
\* absent and leaves the files as they were: the destination is not created, and
\* is unchanged if it existed.
C2_NoWriteUnlessPdf ==
    [][/\ (pc = "statement" /\ pc' = "projection" /\ SuccessfulNonPdf(run'.val.response))
           => fs'.files = fs.files /\ ~run'.val.statement_path.has
       /\ (pc = "projection" /\ pc' = "record" /\ SuccessfulNonPdf(run'.val.response))
           => fs'.files = fs.files /\ ~run'.val.projection_path.has]_vars

C2_Witness ==
    /\ pc = "projection"
    /\ SuccessfulNonPdf(run.val.response)
    \* "statement"
    /\ document_path(Meeting, <<"s","t","a","t","e","m","e","n","t">>) \in DOMAIN fs.files
    /\ ~run.val.statement_path.has

\* a file of that path was written for the k-th meeting of this run
WrittenFor(path, k) ==
    path \in DOMAIN fs.files /\ fs.files[path].written_by = <<runs, k>>

\* C3: in the row of every meeting processed, the statement and the projection
\* field are "missing" exactly when no file of that kind was written for the
\* meeting in this run, and the path of the file written otherwise; no failure
\* stops the run: when it returns, every meeting of the list has its row.
C3_MissingRecorded ==
    run.has =>
        /\ \A k \in 1..Recorded :
               LET meeting == run.val.meetings[k]
                   \* "statement"
                   s == document_path(meeting, <<"s","t","a","t","e","m","e","n","t">>)
                   \* "projections"
                   p == document_path(meeting, <<"p","r","o","j","e","c","t","i","o","n","s">>)
               IN  /\ RowOf(k)[4] = IF WrittenFor(s, k) THEN s ELSE missing
                   /\ RowOf(k)[5] = IF WrittenFor(p, k) THEN p ELSE missing
                   /\ ~meeting.statement_url.has => RowOf(k)[4] = missing
                   /\ ~meeting.projection_url.has => RowOf(k)[5] = missing
        /\ pc = "idle" => Recorded = Len(run.val.meetings)
        /\ pc # "idle" => run.val.idx <= Len(run.val.meetings)

C3_Witness ==
    /\ pc = "idle"
    /\ run.has
    /\ Len(run.val.meetings) = 2
    /\ run.val.meetings[1].statement_url.has
    /\ RowOf(1)[4] = missing
    /\ RowOf(1)[5] # missing
    /\ RowOf(2)[4] = missing

\* the lines of missing_projections.txt
MissingLines(fsys) == IF fsys.missing.has THEN fsys.missing.val ELSE <<>>

\* the data rows of the log whose projection_path is "missing"
RowsLackingProjection(fsys) ==
    IF fsys.log.has THEN SelectSeq(Tail(fsys.log.val), LAMBDA r : r[5] = missing) ELSE <<>>

\* the file has one line per such row, in the same order, naming its date and label
MissingAgrees(fsys) ==
    /\ Len(MissingLines(fsys)) = Len(RowsLackingProjection(fsys))
    /\ \A i \in DOMAIN MissingLines(fsys) :
           MissingLines(fsys)[i] =
               RowsLackingProjection(fsys)[i][2] \o <<" ">> \o RowsLackingProjection(fsys)[i][3]
                   \o <<":"," ","m","i","s","s","i","n","g"," ","p","r","o","j","e","c","t","i","o","n",
                        " ","m","a","t","e","r","i","a","l","s">>

\* C10: from an empty base directory on, the missing-projections file has exactly
\* one line per log row whose projection_path is "missing", in the same order and
\* naming that row's date and label; a step never removes or changes a line.
C10_MissingFileAgrees ==
    [][/\ MissingAgrees(fs')
       /\ Len(MissingLines(fs')) >= Len(MissingLines(fs))
       /\ SubSeq(MissingLines(fs'), 1, Len(MissingLines(fs))) = MissingLines(fs)]_vars

C10_Witness ==
    /\ pc = "idle"
    /\ runs = 2
    /\ Len(MissingLines(fs)) = 3
    /\ Len(fs.log.val) = 5
    /\ MissingLines(fs)[1] = MissingLines(fs)[3]
    /\ fs.log.val[2][5] # missing

\* the years of the logged meeting dates: the first four characters of each
LoggedYears == IF fs.log.has THEN {SubSeq(r[2], 1, 4) : r \in Range(Tail(fs.log.val))} ELSE {}

\* the date an ISO text YYYY-MM-DD names
DateOfIso(text) ==
    Date(ParseInt(SubSeq(text, 1, 4)), ParseInt(SubSeq(text, 6, 7)), ParseInt(SubSeq(text, 9, 10)))

\* how many times x occurs in a sequence
Count(seq, x) == Cardinality({i \in DOMAIN seq : seq[i] = x})

\* C9: GET /years returns exactly the years that occur in a logged meeting_date,
\* each once, in strictly descending order; GET /statements/{year} answers 404
\* exactly when the year is not among them, and otherwise returns the entries of
\* that year, ascending by meeting_date.
C9_YearsAndNotFound ==
    resp.has =>
        /\ resp.val.endpoint = "/years" =>
               /\ Range(resp.val.body) = LoggedYears
               /\ Len(resp.val.body) = Cardinality(LoggedYears)
               /\ \A i, j \in DOMAIN resp.val.body :
                      i < j => ParseInt(resp.val.body[i]) > ParseInt(resp.val.body[j])
        /\ resp.val.endpoint = "/statements/{year}" =>
               /\ resp.val.status = 404 <=> resp.val.year \notin LoggedYears
               /\ resp.val.status \in {200, 404}
               /\ resp.val.status = 200 =>
                      LET logged == _load_entries(fs)
                          body == resp.val.body
                      IN  /\ \A i \in DOMAIN body : SubSeq(body[i].meeting_date, 1, 4) = resp.val.year
                          /\ \A i, j \in DOMAIN body :
                                 i < j => ~DateLess(DateOfIso(body[j].meeting_date),
                                                    DateOfIso(body[i].meeting_date))
                          /\ \A i \in DOMAIN logged :
                                 SubSeq(logged[i].meeting_date, 1, 4) = resp.val.year
                                     => Count(body, logged[i]) = Count(logged, logged[i])
                          /\ Len(body) = Cardinality({i \in DOMAIN logged :
                                 SubSeq(logged[i].meeting_date, 1, 4) = resp.val.year})

C9_Witness ==
    /\ resp.has
    /\ resp.val.endpoint = "/years"
    /\ resp.val.body = << <<"2","0","2","4">>, <<"2","0","1","9">> >>
    /\ fs.log.val[2][2] = isoformat(Date(2019, 12, 10))
    /\ Len(fs.log.val) = 4

====
